---- MODULE Spec2Model ----
(***************************************************************************)
(* claude-watch: the PreToolUse permission hook (hooks/permission-hook.js, *)
(* tree-sitter version) and the approval server (main/server.ts) with its  *)
(* Electron front (main/main.ts, renderer/renderer.ts).                    *)
(*                                                                         *)
(* Strings are sequences of one-character strings, so that prefix, exact   *)
(* and glob matching are computed character by character as the code does. *)
(***************************************************************************)
EXTENDS Integers, Sequences, FiniteSets, TLC

VARIABLES
  parser,      \* hook: module variable `parser` ("unset" | "null" | "ok")
  stdin,       \* hook: what the hook reads from stdin
  fs,          \* the settings files on disk and the .claude directories
  hook,        \* hook: position and result of one run of main()
  client,      \* hook: per request id, "waiting" for the response or what it wrote
  call,        \* hook: the last direct call of an exported function, with its result
  queue,       \* server: NotifierServer.queue (request ids, head first)
  status,      \* server: per request id, how its promise stands
  timerArmed,  \* server: ids whose setTimeout is armed
  nextId,      \* server: the next id generateId() hands out
  popups,      \* main -> renderer: 'permission-request' messages in flight
  shown,       \* renderer: currentRequestId (0: null)
  ipc,         \* renderer -> main: 'permission-response' messages in flight
  app,         \* main.ts: currentView, rendererReady, pendingPermission, server running
  last         \* the handler that ran last and the request it acted on (history)

vars == <<parser, stdin, fs, hook, client, call, queue, status, timerArmed, nextId, popups,
          shown, ipc, app, last>>

hookVars == <<parser, stdin, fs, hook, client, call>>
serverVars == <<queue, status, timerArmed, nextId, popups, shown, ipc, app, last>>

(***************************************************************************)
(* Strings                                                                 *)
(***************************************************************************)
\* The alphabet is letters, digits, "_" and the characters below; \w is
\* every character that is not one of these.
\* The backquote character (written as a name: the lexer reserves the character).
BQ == "backquote"
NonWordChar == {" ", "\t", "=", "$", "(", ")", "*", ":", "-", BQ, "&", ";", "|",
                "\"", "'", "\\", "#", "/", "."}
SpaceChar == {" ", "\t"}

StartsWith(s, p) == Len(s) >= Len(p) /\ SubSeq(s, 1, Len(p)) = p
EndsWith(s, p) == Len(s) >= Len(p) /\ SubSeq(s, Len(s) - Len(p) + 1, Len(s)) = p
Includes(s, ch) == \E i \in 1..Len(s) : s[i] = ch
Drop(s, n) == SubSeq(s, n + 1, Len(s))
Range(seq) == {seq[i] : i \in 1..Len(seq)}

\* F applied to the value of v: a local constant, computed once.
With(v, F(_)) == CHOOSE y \in {F(x) : x \in {v}} : TRUE

\* Number of consecutive characters of s, from index i on, that are in class C.
RECURSIVE SpanLen(_, _, _)
SpanLen(s, i, C) ==
  IF i > Len(s) \/ s[i] \notin C THEN 0 ELSE 1 + SpanLen(s, i + 1, C)

\* Number of consecutive characters of s, from index i on, that are not in C.
RECURSIVE SpanLenNot(_, _, _)
SpanLenNot(s, i, C) ==
  IF i > Len(s) \/ s[i] \in C THEN 0 ELSE 1 + SpanLenNot(s, i + 1, C)

\* String.prototype.trim
RECURSIVE trim(_)
trim(s) ==
  IF s = <<>> THEN s
  ELSE IF s[1] \in SpaceChar THEN trim(Tail(s))
  ELSE IF s[Len(s)] \in SpaceChar THEN trim(SubSeq(s, 1, Len(s) - 1))
  ELSE s

RECURSIVE JoinText(_, _)
JoinText(texts, sep) ==
  IF texts = <<>> THEN <<>>
  ELSE IF Len(texts) = 1 THEN texts[1]
  ELSE texts[1] \o sep \o JoinText(Tail(texts), sep)

(***************************************************************************)
(* stripLeadingEnvVars: strips a leading run of NAME=value groups, each    *)
(* followed by whitespace; a value is single-quoted, double-quoted (with   *)
(* backslash escapes) or a run of non-space characters, tried in that      *)
(* order as the regular expression's alternation does.                     *)
(***************************************************************************)
\* Length of the body of a double-quoted value starting at index i: each
\* step takes a backslash pair or one character that is neither quote nor backslash.
RECURSIVE DQuotedBody(_, _)
DQuotedBody(s, i) ==
  IF i > Len(s) THEN 0
  ELSE IF s[i] = "\\" THEN (IF i + 1 <= Len(s) THEN 2 + DQuotedBody(s, i + 2) ELSE 0)
  ELSE IF s[i] = "\"" THEN 0
  ELSE 1 + DQuotedBody(s, i + 1)

\* Index of the last character of the value that starts at index v, followed
\* by the run of whitespace the group needs; 0 when the alternative fails.
GroupEndAfter(s, e) ==
  LET ws == SpanLen(s, e + 1, SpaceChar) IN IF ws > 0 THEN e + ws ELSE 0

SQuotedEnd(s, v) ==
  IF v <= Len(s) /\ s[v] = "'"
  THEN LET m == SpanLenNot(s, v + 1, {"'"}) IN
       IF v + 1 + m <= Len(s) THEN GroupEndAfter(s, v + 1 + m) ELSE 0
  ELSE 0

DQuotedEnd(s, v) ==
  IF v <= Len(s) /\ s[v] = "\""
  THEN LET m == DQuotedBody(s, v + 1) IN
       IF v + 1 + m <= Len(s) /\ s[v + 1 + m] = "\"" THEN GroupEndAfter(s, v + 1 + m) ELSE 0
  ELSE 0

BareEnd(s, v) == GroupEndAfter(s, v - 1 + SpanLenNot(s, v, SpaceChar))

\* Characters consumed by one NAME=value group at the start of s (0: no match).
EnvGroupLen(s) ==
  LET n == SpanLenNot(s, 1, NonWordChar) IN
  IF n = 0 \/ n + 1 > Len(s) \/ s[n + 1] # "=" THEN 0
  ELSE LET v == n + 2 IN
       IF SQuotedEnd(s, v) > 0 THEN SQuotedEnd(s, v)
       ELSE IF DQuotedEnd(s, v) > 0 THEN DQuotedEnd(s, v)
       ELSE BareEnd(s, v)

RECURSIVE stripLeadingEnvVars(_)
stripLeadingEnvVars(command) ==
  With(EnvGroupLen(command), LAMBDA n :
    IF n = 0 THEN command ELSE stripLeadingEnvVars(Drop(command, n)))

(***************************************************************************)
(* Pattern matcher                                                         *)
(***************************************************************************)
\* new RegExp('^' + escaped + '$').test(s), where every character of the
\* pattern but '*' is literal and a run of '*' is '.*'.
RECURSIVE GlobMatch(_, _)
GlobMatch(p, s) ==
  IF p = <<>> THEN s = <<>>
  ELSE IF p[1] = "*"
       THEN GlobMatch(Tail(p), s) \/ (s # <<>> /\ GlobMatch(p, Tail(s)))
       ELSE s # <<>> /\ s[1] = p[1] /\ GlobMatch(Tail(p), Tail(s))

\* Mutant: an exact pattern matches every command that begins with it.
matchesOnePattern_AnyContinuation(cmd, pattern) ==
  IF EndsWith(pattern, <<":", "*">>)
  THEN LET prefix == SubSeq(pattern, 1, Len(pattern) - 2) IN
       \/ cmd = prefix
       \/ StartsWith(cmd, prefix \o <<" ">>)
       \/ StartsWith(cmd, prefix \o <<"\t">>)
  ELSE IF Includes(pattern, "*")
  THEN GlobMatch(pattern, cmd)
  ELSE StartsWith(cmd, pattern)

matchesOnePattern(cmd, pattern) ==
  IF EndsWith(pattern, <<":", "*">>)
  THEN LET prefix == SubSeq(pattern, 1, Len(pattern) - 2) IN
       \/ cmd = prefix
       \/ StartsWith(cmd, prefix \o <<" ">>)
       \/ StartsWith(cmd, prefix \o <<"\t">>)
  ELSE IF Includes(pattern, "*")
  THEN GlobMatch(pattern, cmd)
  ELSE cmd = pattern \/ StartsWith(cmd, pattern \o <<" ">>)

matchesSingleCommand(command, patterns) ==
  \E stripped \in {stripLeadingEnvVars(command)} :
    \E cmd \in {IF stripped = <<>> THEN command ELSE stripped} :
      \E pattern \in Range(patterns) : matchesOnePattern(cmd, pattern)

matchesToolPattern(toolName, toolPatterns) ==
  \E pattern \in Range(toolPatterns) :
     \/ pattern = toolName
     \/ Includes(pattern, "*") /\ GlobMatch(pattern, toolName)

(***************************************************************************)
(* Syntax trees as web-tree-sitter hands them to the hook.  A node is a    *)
(* record: type, named (a named node, as opposed to a token such as "&&"), *)
(* text (the source text it spans), children, and the child indexes of the *)
(* fields `name` and `value` (0: the field is absent).                     *)
(***************************************************************************)
Leaf(type, named, text) ==
  [type |-> type, named |-> named, text |-> text, children |-> <<>>, name |-> 0, value |-> 0]

Token(text) == Leaf("token", FALSE, text)
Word(text) == Leaf("word", TRUE, text)

Texts(children) == [i \in 1..Len(children) |-> children[i].text]

Inner(type, children, sep, name, value) ==
  [type |-> type, named |-> TRUE, text |-> JoinText(Texts(children), sep),
   children |-> children, name |-> name, value |-> value]

CommandName(literal) == Inner("command_name", <<literal>>, <<>>, 0, 0)

\* command: variable_assignment* command_name argument*
Command(assignments, literal, arguments) ==
  Inner("command", assignments \o <<CommandName(literal)>> \o arguments, <<" ">>,
        Len(assignments) + 1, 0)

CommandSubstitution(statement) ==
  Inner("command_substitution", <<Token(<<"$", "(">>), statement, Token(<<")">>)>>, <<>>, 0, 0)

BacktickSubstitution(statement) ==
  Inner("command_substitution", <<Token(<<BQ>>), statement, Token(<<BQ>>)>>, <<>>, 0, 0)

StringNode(parts) ==
  Inner("string", <<Token(<<"\"">>)>> \o parts \o <<Token(<<"\"">>)>>, <<>>, 0, 0)

SimpleExpansion(name) ==
  Inner("simple_expansion", <<Token(<<"$">>), Leaf("variable_name", TRUE, name)>>, <<>>, 0, 0)

VariableAssignment(name, valueNode) ==
  Inner("variable_assignment",
        <<Leaf("variable_name", TRUE, name), Token(<<"=">>), valueNode>>, <<>>, 0, 3)

ArrayNode(words) ==
  [type |-> "array", named |-> TRUE,
   text |-> <<"(">> \o JoinText(Texts(words), <<" ">>) \o <<")">>,
   children |-> <<Token(<<"(">>)>> \o words \o <<Token(<<")">>)>>, name |-> 0, value |-> 0]

DeclarationCommand(keyword, arguments) ==
  Inner("declaration_command", <<Token(keyword)>> \o arguments, <<" ">>, 0, 0)

ListNode(left, operator, right) ==
  Inner("list", <<left, Token(operator), right>>, <<" ">>, 0, 0)

PipelineNode(left, right) ==
  Inner("pipeline", <<left, Token(<<"|">>), right>>, <<" ">>, 0, 0)

ProgramNode(statements) == Inner("program", statements, <<" ">>, 0, 0)

(***************************************************************************)
(* Shell parser: hasVariableExpansion, extractCommandsFromAST (walk)       *)
(***************************************************************************)
RECURSIVE hasVariableExpansion(_)
hasVariableExpansion(node) ==
  \/ node.type \in {"simple_expansion", "expansion"}
  \/ \E i \in 1..Len(node.children) : hasVariableExpansion(node.children[i])

NoCommands == [commands |-> <<>>, hasUnresolvable |-> FALSE]

\* The text the walk pushes for a command node itself.
commandText(node) ==
  LET hasAssignments ==
        \E i \in 1..Len(node.children) :
           node.children[i].named /\ node.children[i].type = "variable_assignment"
      parts == SelectSeq(node.children, LAMBDA c : c.type # "variable_assignment")
      hasArgs ==
        \E i \in 1..Len(node.children) :
           node.children[i].named /\ node.children[i].type # "variable_assignment"
  IN IF node.name # 0
     THEN IF hasAssignments THEN <<JoinText(Texts(parts), <<" ">>)>> ELSE <<node.text>>
     ELSE IF hasArgs THEN <<node.text>> ELSE <<>>

\* The children of a command node that the walk descends into.
commandChildren(node) == SelectSeq(node.children, LAMBDA c : c.type # "command_name")

RECURSIVE walk(_), walkEach(_)
\* Mutant: a later sibling resets the flag an earlier sibling has set.
walkEach_LastWins(nodes) ==
  IF nodes = <<>> THEN NoCommands
  ELSE With(walk(Head(nodes)), LAMBDA first :
       With(walkEach(Tail(nodes)), LAMBDA rest :
         [commands |-> first.commands \o rest.commands,
          hasUnresolvable |-> IF Tail(nodes) = <<>> THEN first.hasUnresolvable
                              ELSE rest.hasUnresolvable]))

walkEach(nodes) ==
  IF nodes = <<>> THEN NoCommands
  ELSE With(walk(Head(nodes)), LAMBDA first :
       With(walkEach(Tail(nodes)), LAMBDA rest :
         [commands |-> first.commands \o rest.commands,
          hasUnresolvable |-> first.hasUnresolvable \/ rest.hasUnresolvable]))

\* Mutant: an assignment is pushed as if it were a command.
walk_AssignmentsAsCommands(node) ==
  IF node.type = "command"
  THEN With(walkEach(commandChildren(node)), LAMBDA below :
         [commands |-> commandText(node) \o below.commands,
          hasUnresolvable |->
            \/ (node.name # 0 /\ hasVariableExpansion(node.children[node.name]))
            \/ below.hasUnresolvable])
  ELSE IF node.type = "variable_assignment"
  THEN With(IF node.value # 0 THEN walk(node.children[node.value]) ELSE NoCommands,
            LAMBDA below : [commands |-> <<node.text>> \o below.commands,
                            hasUnresolvable |-> below.hasUnresolvable])
  ELSE walkEach(node.children)

walk(node) ==
  IF node.type = "command"
  THEN With(walkEach(commandChildren(node)), LAMBDA below :
         [commands |-> commandText(node) \o below.commands,
          hasUnresolvable |->
            \/ (node.name # 0 /\ hasVariableExpansion(node.children[node.name]))
            \/ below.hasUnresolvable])
  ELSE IF node.type = "variable_assignment"
  THEN IF node.value # 0 THEN walk(node.children[node.value]) ELSE NoCommands
  ELSE walkEach(node.children)

extractCommandsFromAST(rootNode) == walk(rootNode)

parseTree(rootNode, hasError) == [src |-> rootNode.text, rootNode |-> rootNode, hasError |-> hasError]

\* parser.parse: the trees tree-sitter-bash builds for the commands of the
\* model's universe, looked up by source text.
w_ls == <<"l", "s">>
w_rm == <<"r", "m">>
w_x == <<"x">>
cmdLs == Command(<<>>, Word(w_ls), <<>>)
cmdRm == Command(<<>>, Word(w_rm), <<Word(w_x)>>)
substRm == CommandSubstitution(cmdRm)

Programs ==
  << parseTree(ProgramNode(<<cmdLs>>), FALSE),                                  \* ls
     parseTree(ProgramNode(<<cmdRm>>), FALSE),                                  \* rm x
     parseTree(ProgramNode(<<Command(<<>>, Word(<<"l", "s", "x">>), <<>>)>>), FALSE),     \* lsx
     parseTree(ProgramNode(<<ListNode(cmdLs, <<"&", "&">>, cmdRm)>>), FALSE),        \* ls && rm x
     parseTree(ProgramNode(<<ListNode(cmdLs, <<"|", "|">>, cmdRm)>>), FALSE),         \* ls || rm x
     parseTree(ProgramNode(<<cmdLs, Token(<<";">>), cmdRm>>), FALSE),          \* ls ; rm x
     parseTree(ProgramNode(<<cmdLs, Token(<<"&">>), cmdRm>>), FALSE),           \* ls & rm x
     parseTree(ProgramNode(<<PipelineNode(cmdLs, cmdRm)>>), FALSE),             \* ls | rm x
     parseTree(ProgramNode(<<ListNode(cmdLs, <<"&", "&">>, cmdLs)>>), FALSE),        \* ls && ls
     parseTree(ProgramNode(<<Command(<<>>, Word(w_ls), <<substRm>>)>>), FALSE), \* ls $(rm x)
     parseTree(ProgramNode(<<Command(<<>>, Word(w_ls),
                 <<BacktickSubstitution(cmdRm)>>)>>), FALSE),                   \* ls BQ rm x BQ
     parseTree(ProgramNode(<<Command(<<>>, Word(w_ls),
                 <<CommandSubstitution(Command(<<>>, Word(w_ls), <<substRm>>))>>)>>),
               FALSE),                                                          \* ls $(ls $(rm x))
     parseTree(ProgramNode(<<Command(<<>>, Word(w_ls),
                 <<StringNode(<<substRm>>)>>)>>), FALSE),                       \* ls "$(rm x)"
     parseTree(ProgramNode(<<Command(<<>>, substRm, <<>>)>>), FALSE),           \* $(rm x)
     parseTree(ProgramNode(<<Command(<<>>, SimpleExpansion(<<"c">>), <<Word(w_x)>>)>>),
               FALSE),                                                          \* $c x
     parseTree(ProgramNode(<<Command(<<VariableAssignment(<<"A">>, Word(<<"1">>))>>,
                 Word(w_ls), <<Word(w_x)>>)>>), FALSE),                         \* A=1 ls x
     parseTree(ProgramNode(<<Command(<<VariableAssignment(<<"A">>, substRm)>>,
                 Word(w_ls), <<>>)>>), FALSE),                                  \* A=$(rm x) ls
     parseTree(ProgramNode(<<VariableAssignment(<<"A">>, substRm)>>), FALSE),     \* A=$(rm x)
     parseTree(ProgramNode(<<DeclarationCommand(<<"e", "x", "p", "o", "r", "t">>,
                 <<VariableAssignment(<<"A">>, substRm)>>)>>), FALSE),            \* export A=$(rm x)
     parseTree(ProgramNode(<<VariableAssignment(<<"f">>,
                 ArrayNode(<<Word(<<"a">>), Word(<<"b">>)>>))>>), FALSE),           \* f=(a b)
     parseTree(ProgramNode(<<cmdLs, Leaf("ERROR", TRUE, <<"(">>)>>), TRUE),      \* ls (
     parseTree(ProgramNode(<<Leaf("comment", TRUE, <<"#", " ", "c">>)>>), FALSE),     \* # c
     parseTree(ProgramNode(<<>>), FALSE) >>                                     \* (empty)

\* Further trees, parsed only when the extraction is applied on its own.
NestedPrograms ==
  << parseTree(ProgramNode(<<ListNode(
                 Command(<<>>, SimpleExpansion(<<"c">>), <<Word(w_x)>>),
                 <<"&", "&">>, cmdLs)>>), FALSE),                               \* $c x && ls
     parseTree(ProgramNode(<<Command(<<>>, Word(w_ls),
                 <<CommandSubstitution(
                     Command(<<>>, SimpleExpansion(<<"c">>), <<Word(w_x)>>))>>)>>),
               FALSE) >>                                                        \* ls $($c x)

AllPrograms == Programs \o NestedPrograms

parse(command) ==
  AllPrograms[CHOOSE i \in 1..Len(AllPrograms) : AllPrograms[i].src = command]

\* Mutant: the fallback reports the opaque command as resolved.
parseAndExtractCommands_FallbackResolved(command) ==
  IF parser # "ok"
  THEN [commands |-> <<command>>, hasUnresolvable |-> FALSE]
  ELSE With(parse(command), LAMBDA tree :
       With(extractCommandsFromAST(tree.rootNode), LAMBDA result :
         [commands |-> result.commands,
          hasUnresolvable |-> result.hasUnresolvable \/ tree.hasError]))

parseAndExtractCommands(command) ==
  IF parser # "ok"
  THEN [commands |-> <<command>>, hasUnresolvable |-> TRUE]
  ELSE With(parse(command), LAMBDA tree :
       With(extractCommandsFromAST(tree.rootNode), LAMBDA result :
         [commands |-> result.commands,
          hasUnresolvable |-> result.hasUnresolvable \/ tree.hasError]))

\* Mutant: the "all" mode without the hasUnresolvable guard.
matchesCommandPattern_IgnoresUnresolvable(command, patterns, mode) ==
  \E r \in {parseAndExtractCommands(command)} :
    IF Len(r.commands) = 0 THEN FALSE
    ELSE IF mode = "any"
    THEN \E cmd \in Range(r.commands) : matchesSingleCommand(cmd, patterns)
    ELSE \A cmd \in Range(r.commands) : matchesSingleCommand(cmd, patterns)

matchesCommandPattern(command, patterns, mode) ==
  \E r \in {parseAndExtractCommands(command)} :
    IF Len(r.commands) = 0 THEN FALSE
    ELSE IF mode # "any" /\ r.hasUnresolvable THEN FALSE
    ELSE IF mode = "any"
    THEN \E cmd \in Range(r.commands) : matchesSingleCommand(cmd, patterns)
    ELSE \A cmd \in Range(r.commands) : matchesSingleCommand(cmd, patterns)

\* Mutant: every extracted sub-command is reported, allowed or not.
extractUnmatchedCommands_All(command, allowPatterns) ==
  With(parseAndExtractCommands(command), LAMBDA r :
    [unmatched |-> r.commands, hasUnresolvable |-> r.hasUnresolvable])

extractUnmatchedCommands(command, allowPatterns) ==
  With(parseAndExtractCommands(command), LAMBDA r :
    [unmatched |-> SelectSeq(r.commands, LAMBDA cmd : ~matchesSingleCommand(cmd, allowPatterns)),
     hasUnresolvable |-> r.hasUnresolvable])

(***************************************************************************)
(* Policy store: parsePermissionList, mergePermissionLists,                *)
(* readSettingsFile, findProjectRoot, isBypassPermissions,                 *)
(* loadPermissionSettings.                                                 *)
(*                                                                         *)
(* A settings file is [kind, bypassPermissions, hasPermissions,            *)
(* defaultMode, allow, deny, ask]: kind is "missing" (unreadable),         *)
(* "malformed" (JSON.parse throws) or "json"; a list is [kind, entries]    *)
(* with kind "absent", "array" or "other" (a truthy value that is no       *)
(* array); an entry is [isString, text].                                   *)
(***************************************************************************)
BashOpen == <<"B", "a", "s", "h", "(">>
BashClose == <<")">>

Str(text) == [isString |-> TRUE, text |-> text]
NotAString == [isString |-> FALSE, text |-> <<>>]
BashEntry(pattern) == Str(BashOpen \o pattern \o BashClose)
Absent == [kind |-> "absent", entries |-> <<>>]
Array(entries) == [kind |-> "array", entries |-> entries]
NotAnArray == [kind |-> "other", entries |-> <<>>]

EmptyList == [bashPatterns |-> <<>>, toolPatterns |-> <<>>]

RECURSIVE parseEntries(_)
parseEntries(entries) ==
  IF entries = <<>> THEN EmptyList
  ELSE With(Head(entries), LAMBDA entry :
       With(parseEntries(Tail(entries)), LAMBDA rest :
         IF ~entry.isString THEN rest
         ELSE IF StartsWith(entry.text, BashOpen) /\ EndsWith(entry.text, BashClose)
         THEN [rest EXCEPT !.bashPatterns =
                 <<SubSeq(entry.text, 6, Len(entry.text) - 1)>> \o @]
         ELSE [rest EXCEPT !.toolPatterns = <<entry.text>> \o @]))

parsePermissionList(list) ==
  IF list.kind # "array" THEN EmptyList ELSE parseEntries(list.entries)

\* Mutant: the later layer's patterns are put in front.
mergePermissionLists_Prepend(a, b) ==
  [bashPatterns |-> b.bashPatterns \o a.bashPatterns,
   toolPatterns |-> b.toolPatterns \o a.toolPatterns]

mergePermissionLists(a, b) ==
  [bashPatterns |-> a.bashPatterns \o b.bashPatterns,
   toolPatterns |-> a.toolPatterns \o b.toolPatterns]

Null == [kind |-> "null"]

\* File paths: the global file, and the two project files of a directory.
GlobalPath == [file |-> "global", dir |-> 0]
SharedPath(dir) == [file |-> "settings.json", dir |-> dir]
LocalPath(dir) == [file |-> "settings.local.json", dir |-> dir]

fileAt(filePath) ==
  IF filePath.file = "global" THEN fs.global
  ELSE IF filePath.file = "settings.json" THEN fs.shared[filePath.dir]
  ELSE fs.local[filePath.dir]

\* Mutant: a file that cannot be parsed counts as one that asks for bypass.
readSettingsFile_MalformedBypass(filePath) ==
  With(fileAt(filePath), LAMBDA file :
    IF file.kind = "json" THEN file
    ELSE IF file.kind = "malformed"
    THEN [kind |-> "json", bypassPermissions |-> TRUE, hasPermissions |-> FALSE,
          defaultMode |-> "default", allow |-> Absent, deny |-> Absent, ask |-> Absent]
    ELSE Null)

readSettingsFile(filePath) ==
  With(fileAt(filePath), LAMBDA file : IF file.kind = "json" THEN file ELSE Null)

\* Directories are their depth below the filesystem root (0); the parent of
\* the root is the root.  NoRoot is the null result.
NoRoot == 0 - 1
RECURSIVE findProjectRoot(_)
findProjectRoot(cwd) ==
  IF cwd \in fs.claudeDirs THEN cwd
  ELSE IF cwd = 0 THEN NoRoot
  ELSE findProjectRoot(cwd - 1)

isBypassPermissions(settings) ==
  \/ settings.bypassPermissions
  \/ settings.hasPermissions /\ settings.defaultMode = "bypassPermissions"

\* for (const key of ['allow', 'deny', 'ask']) if (perms[key]) result[key] = merge(...)
mergeKey(current, list) ==
  IF list.kind = "absent" THEN current
  ELSE mergePermissionLists(current, parsePermissionList(list))

mergePermissions(result, settings) ==
  IF ~settings.hasPermissions THEN result
  ELSE [result EXCEPT !.allow = mergeKey(@, settings.allow),
                      !.deny = mergeKey(@, settings.deny),
                      !.ask = mergeKey(@, settings.ask)]

mergeGlobal(result) ==
  With(readSettingsFile(GlobalPath), LAMBDA globalSettings :
    IF globalSettings = Null THEN result
    ELSE mergePermissions(
           [result EXCEPT !.bypassPermissions = @ \/ isBypassPermissions(globalSettings)],
           globalSettings))

\* Mutant: the shared layer's bypass indicator is honoured like the local layer's.
mergeProjectShared_WithBypass(result, projectRoot) ==
  With(readSettingsFile(SharedPath(projectRoot)), LAMBDA projectSettings :
    IF projectSettings = Null THEN result
    ELSE mergePermissions(
           [result EXCEPT !.bypassPermissions = @ \/ isBypassPermissions(projectSettings)],
           projectSettings))

\* Mutant: the shared layer contributes deny and ask only.
mergeProjectShared_DenyAskOnly(result, projectRoot) ==
  With(readSettingsFile(SharedPath(projectRoot)), LAMBDA projectSettings :
    IF projectSettings = Null \/ ~projectSettings.hasPermissions THEN result
    ELSE [result EXCEPT !.deny = mergeKey(@, projectSettings.deny),
                        !.ask = mergeKey(@, projectSettings.ask)])

mergeProjectShared(result, projectRoot) ==
  With(readSettingsFile(SharedPath(projectRoot)), LAMBDA projectSettings :
    IF projectSettings = Null THEN result
    ELSE mergePermissions(result, projectSettings))

mergeProjectLocal(result, projectRoot) ==
  With(readSettingsFile(LocalPath(projectRoot)), LAMBDA localSettings :
    IF localSettings = Null THEN result
    ELSE mergePermissions(
           [result EXCEPT !.bypassPermissions = @ \/ isBypassPermissions(localSettings)],
           localSettings))

EmptyPolicy ==
  [allow |-> EmptyList, deny |-> EmptyList, ask |-> EmptyList, bypassPermissions |-> FALSE]

loadPermissionSettings(cwd) ==
  With(mergeGlobal(EmptyPolicy), LAMBDA afterGlobal :
  With(findProjectRoot(cwd), LAMBDA projectRoot :
    IF projectRoot = NoRoot THEN afterGlobal
    ELSE With(mergeProjectShared(afterGlobal, projectRoot), LAMBDA afterShared :
           mergeProjectLocal(afterShared, projectRoot))))

(***************************************************************************)
(* The hook's main(): from the parsed stdin record to a verdict.           *)
(* exit(0) with nothing written is AutoAllow (Claude Code proceeds on its  *)
(* own); the deny output is AutoDeny; going on to the popup is             *)
(* NeedsApproval.  `via` names the exit taken.                             *)
(***************************************************************************)
Bash == <<"B", "a", "s", "h">>
Read == <<"R", "e", "a", "d">>
Glob == <<"G", "l", "o", "b">>
Grep == <<"G", "r", "e", "p">>
Edit == <<"E", "d", "i", "t">>
McpTool == <<"m", "c", "p", "_", "_", "n">>
SAFE_TOOLS == {Read, Glob, Grep}

\* process.cwd(): the depth of the working directory.
CwdDepth == 1

NoUnmatched == [present |-> FALSE, commands |-> <<>>, hasUnresolvable |-> FALSE]

Outcome(verdict, via, perms, command, ask, unmatched) ==
  [verdict |-> verdict, via |-> via, perms |-> perms, command |-> command,
   isAskListed |-> ask, unmatchedCommands |-> unmatched]

\* Mutant: the deny list read with "all" semantics.
isDenied_AllMode(toolName, command, perms) ==
  IF toolName = Bash
  THEN matchesCommandPattern(command, perms.deny.bashPatterns, "all")
  ELSE matchesToolPattern(toolName, perms.deny.toolPatterns)

isDenied(toolName, command, perms) ==
  IF toolName = Bash
  THEN matchesCommandPattern(command, perms.deny.bashPatterns, "any")
  ELSE matchesToolPattern(toolName, perms.deny.toolPatterns)

isAskListed(toolName, command, perms) ==
  IF toolName = Bash
  THEN matchesCommandPattern(command, perms.ask.bashPatterns, "any")
  ELSE matchesToolPattern(toolName, perms.ask.toolPatterns)

\* Mutant: the allow list read with "any" semantics.
isAllowed_AnyMode(toolName, command, perms) ==
  IF toolName = Bash
  THEN matchesCommandPattern(command, perms.allow.bashPatterns, "any")
  ELSE matchesToolPattern(toolName, perms.allow.toolPatterns)

isAllowed(toolName, command, perms) ==
  IF toolName = Bash
  THEN matchesCommandPattern(command, perms.allow.bashPatterns, "all")
  ELSE matchesToolPattern(toolName, perms.allow.toolPatterns)

\* Mutant: the allow list is consulted whether or not the ask list matched.
afterDeny_AllowBeforeAsk(toolName, command, perms) ==
  With(isAskListed(toolName, command, perms), LAMBDA ask :
    IF isAllowed(toolName, command, perms)
    THEN Outcome("AutoAllow", "allowList", perms, command, ask, NoUnmatched)
    ELSE IF toolName = Bash /\ command # <<>>
    THEN With(extractUnmatchedCommands(command, perms.allow.bashPatterns), LAMBDA u :
           IF ~ask /\ Len(u.unmatched) = 0 /\ ~u.hasUnresolvable
           THEN Outcome("AutoAllow", "allCovered", perms, command, ask, NoUnmatched)
           ELSE Outcome("NeedsApproval", "popup", perms, command, ask,
                        [present |-> TRUE, commands |-> u.unmatched,
                         hasUnresolvable |-> u.hasUnresolvable]))
    ELSE Outcome("NeedsApproval", "popup", perms, command, ask, NoUnmatched))

\* Lines "ask list ... popup": the allow list, then the unmatched commands.
afterDeny(toolName, command, perms) ==
  With(isAskListed(toolName, command, perms), LAMBDA ask :
    IF ~ask /\ isAllowed(toolName, command, perms)
    THEN Outcome("AutoAllow", "allowList", perms, command, ask, NoUnmatched)
    ELSE IF toolName = Bash /\ command # <<>>
    THEN With(extractUnmatchedCommands(command, perms.allow.bashPatterns), LAMBDA u :
           IF ~ask /\ Len(u.unmatched) = 0 /\ ~u.hasUnresolvable
           THEN Outcome("AutoAllow", "allCovered", perms, command, ask, NoUnmatched)
           ELSE Outcome("NeedsApproval", "popup", perms, command, ask,
                        [present |-> TRUE, commands |-> u.unmatched,
                         hasUnresolvable |-> u.hasUnresolvable]))
    ELSE Outcome("NeedsApproval", "popup", perms, command, ask, NoUnmatched))

\* Mutant: the deny list is read before the bypass flag of the settings.
afterLoad_DenyBeforeBypass(toolName, rawCommand, perms) ==
  With(IF toolName = Bash THEN trim(rawCommand) ELSE <<>>, LAMBDA command :
    IF isDenied(toolName, command, perms)
    THEN Outcome("AutoDeny", "denyList", perms, command, FALSE, NoUnmatched)
    ELSE IF perms.bypassPermissions
    THEN Outcome("AutoAllow", "bypassSettings", perms, <<>>, FALSE, NoUnmatched)
    ELSE IF toolName = Bash /\ command = <<>>
    THEN Outcome("AutoAllow", "emptyCommand", perms, command, FALSE, NoUnmatched)
    ELSE afterDeny(toolName, command, perms))

afterLoad(toolName, rawCommand, perms) ==
  With(IF toolName = Bash THEN trim(rawCommand) ELSE <<>>, LAMBDA command :
    IF perms.bypassPermissions
    THEN Outcome("AutoAllow", "bypassSettings", perms, <<>>, FALSE, NoUnmatched)
    ELSE IF toolName = Bash /\ command = <<>>
    THEN Outcome("AutoAllow", "emptyCommand", perms, command, FALSE, NoUnmatched)
    ELSE IF isDenied(toolName, command, perms)
    THEN Outcome("AutoDeny", "denyList", perms, command, FALSE, NoUnmatched)
    ELSE afterDeny(toolName, command, perms))

\* Mutant: the read-only tools go through the lists like any other tool.
resolve_NoSafeTools(data) ==
  IF data.permission_mode = "bypassPermissions"
  THEN Outcome("AutoAllow", "bypassMode", EmptyPolicy, <<>>, FALSE, NoUnmatched)
  ELSE With(loadPermissionSettings(CwdDepth), LAMBDA perms :
         afterLoad(data.tool_name, data.command, perms))

resolve(data) ==
  IF data.permission_mode = "bypassPermissions"
  THEN Outcome("AutoAllow", "bypassMode", EmptyPolicy, <<>>, FALSE, NoUnmatched)
  ELSE IF data.tool_name \in SAFE_TOOLS
  THEN Outcome("AutoAllow", "safeTool", EmptyPolicy, <<>>, FALSE, NoUnmatched)
  ELSE With(loadPermissionSettings(CwdDepth), LAMBDA perms :
         afterLoad(data.tool_name, data.command, perms))

\* answer: what came back from the app ("none": not asked); output: what the
\* hook wrote to stdout before exit(0) ("none": nothing).
NoCall == [fn |-> "none"]

HookStart ==
  [pc |-> "init", answer |-> "none", output |-> "none"]
    @@ Outcome("none", "none", EmptyPolicy, <<>>, FALSE, NoUnmatched)

\* await initTreeSitter(): the parser is set, or stays null when the module,
\* the grammar file or the initialisation is missing or throws.
InitTreeSitter ==
  /\ hook.pc = "init"
  /\ \E outcome \in {"ok", "null"} : parser' = outcome
  /\ hook' = [hook EXCEPT !.pc = "read"]
  /\ UNCHANGED <<stdin, fs, client, call>>

\* Reading stdin and JSON.parse: oversize or malformed input exits 0.  Kind
\* "null" is input that parses to JSON null.
ReadStdin ==
  /\ hook.pc = "read"
  /\ hook' = IF stdin.kind \in {"json", "null"}
             THEN [hook EXCEPT !.pc = "resolve"]
             ELSE [hook EXCEPT !.pc = "exit", !.verdict = "AutoAllow", !.via = "invalidInput"]
  /\ UNCHANGED <<parser, stdin, fs, client, call>>

\* main(), from tool_name to the last exit before the health check.  On JSON
\* that is no object, data.tool_name throws and main().catch exits 0.
Resolve ==
  /\ hook.pc = "resolve"
  /\ IF stdin.kind = "null"
     THEN hook' = [hook EXCEPT !.pc = "exit", !.verdict = "AutoAllow", !.via = "mainCatch"]
     ELSE \E r \in {resolve(stdin)} :
            hook' = [pc |-> IF r.verdict = "NeedsApproval" THEN "health" ELSE "exit",
                     answer |-> "none",
                     output |-> IF r.verdict = "AutoDeny" THEN "deny" ELSE "none"] @@ r
  /\ UNCHANGED <<parser, stdin, fs, client, call>>

(***************************************************************************)
(* shared/danger-level.ts: the danger level the server attaches to a       *)
(* request.  A level is its index in LEVEL_ORDER.  Of the pattern lists    *)
(* the model keeps the patterns made of one word; the others need a word   *)
(* ("git", "npm", "docker", ...) or a continuation of "rm" ("-", "/") that  *)
(* no command of the model's universe has.                                 *)
(***************************************************************************)
LEVEL_ORDER == <<"SAFE", "LOW", "MEDIUM", "HIGH", "CRITICAL">>
indexOf(level) == CHOOSE i \in 1..Len(LEVEL_ORDER) : LEVEL_ORDER[i] = level

\* \b between positions i - 1 and i of s
Boundary(s, i) ==
  LET isWord(k) == k >= 1 /\ k <= Len(s) /\ s[k] \notin NonWordChar
  IN isWord(i - 1) # isWord(i)

\* /\bword\b/.test(s)
ContainsWord(s, word) ==
  \E i \in 1..Len(s) :
    /\ i + Len(word) - 1 <= Len(s)
    /\ SubSeq(s, i, i + Len(word) - 1) = word
    /\ Boundary(s, i) /\ Boundary(s, i + Len(word))

\* /^\s*word\b/.test(s)
StartsWithWord(s, word) ==
  LET i == 1 + SpanLen(s, 1, SpaceChar) IN
  /\ i + Len(word) - 1 <= Len(s)
  /\ SubSeq(s, i, i + Len(word) - 1) = word
  /\ Boundary(s, i + Len(word))

CRITICAL_WORDS ==
  { <<"s", "u", "d", "o">>, <<"m", "k", "f", "s">>, <<"f", "o", "r", "m", "a", "t">> }
HIGH_WORDS ==
  { <<"c", "u", "r", "l">>, <<"w", "g", "e", "t">>, <<"c", "h", "m", "o", "d">>,
    <<"c", "h", "o", "w", "n">>, <<"k", "i", "l", "l">>, <<"p", "k", "i", "l", "l">>,
    <<"k", "i", "l", "l", "a", "l", "l">>, <<"n", "p", "x">> }
SAFE_WORDS ==
  { <<"l", "s">>, <<"c", "a", "t">>, <<"h", "e", "a", "d">>,
    <<"t", "a", "i", "l">>, <<"e", "c", "h", "o">>, <<"p", "w", "d">>,
    <<"w", "h", "i", "c", "h">>, <<"w", "h", "o", "a", "m", "i">>, <<"d", "a", "t", "e">>,
    <<"e", "n", "v">>, <<"p", "r", "i", "n", "t", "e", "n", "v">> }
LOW_WORDS ==
  { <<"p", "y", "t", "e", "s", "t">>, <<"v", "i", "t", "e", "s", "t">>, <<"j", "e", "s", "t">>,
    <<"f", "i", "n", "d">>, <<"g", "r", "e", "p">>, <<"r", "g">>,
    <<"t", "r", "e", "e">>, <<"w", "c">>, <<"d", "i", "f", "f">> }
MEDIUM_WORDS ==
  { <<"m", "k", "d", "i", "r">>, <<"t", "o", "u", "c", "h">>, <<"m", "v">>,
    <<"c", "p">>, <<"p", "y", "t", "h", "o", "n">>, <<"t", "s", "c">>,
    <<"s", "e", "d">>, <<"a", "w", "k">> }

analyzeSingleCommand(command) ==
  IF \E w \in CRITICAL_WORDS : ContainsWord(command, w) THEN "CRITICAL"
  ELSE IF \E w \in HIGH_WORDS : ContainsWord(command, w) THEN "HIGH"
  ELSE IF \E w \in SAFE_WORDS : StartsWithWord(command, w) THEN "SAFE"
  ELSE IF \E w \in LOW_WORDS : ContainsWord(command, w) THEN "LOW"
  ELSE IF \E w \in MEDIUM_WORDS : ContainsWord(command, w) THEN "MEDIUM"
  ELSE "MEDIUM"

\* Length of the separator (a pipe that is not followed by a pipe, "||", "&&"
\* or ";") that starts at index i of s; 0 when none does.
SeparatorAt(s, i) ==
  LET next == IF i + 1 <= Len(s) THEN s[i + 1] ELSE "" IN
  IF s[i] = "|" THEN (IF next = "|" THEN 2 ELSE 1)
  ELSE IF s[i] = "&" /\ next = "&" THEN 2
  ELSE IF s[i] = ";" THEN 1
  ELSE 0

\* command.split(separator): the parts, white space around separators kept
\* (every part is trimmed by its user).
RECURSIVE splitCommands(_)
splitCommands(command) ==
  IF \A i \in 1..Len(command) : SeparatorAt(command, i) = 0 THEN <<command>>
  ELSE LET i == CHOOSE k \in 1..Len(command) :
                  /\ SeparatorAt(command, k) > 0
                  /\ \A j \in 1..(k - 1) : SeparatorAt(command, j) = 0
       IN <<SubSeq(command, 1, i - 1)>>
            \o splitCommands(Drop(command, i - 1 + SeparatorAt(command, i)))

getHighestLevel(levels) ==
  LEVEL_ORDER[CHOOSE h \in 1..Len(LEVEL_ORDER) :
                /\ \A i \in 1..Len(levels) : indexOf(levels[i]) <= h
                /\ h = 1 \/ \E i \in 1..Len(levels) : indexOf(levels[i]) = h]

analyzeDangerLevel(command) ==
  LET parts == splitCommands(trim(command)) IN
  IF Len(parts) > 1
  THEN getHighestLevel([i \in 1..Len(parts) |-> analyzeSingleCommand(trim(parts[i]))])
  ELSE analyzeSingleCommand(trim(command))

getToolDangerLevel(toolName) ==
  IF toolName \in {Read, Glob, Grep} THEN "SAFE"
  ELSE IF toolName = <<"T", "a", "s", "k">> THEN "LOW"
  ELSE IF toolName \in {Edit, <<"W", "r", "i", "t", "e">>} THEN "MEDIUM"
  ELSE IF toolName = <<"W", "e", "b", "F", "e", "t", "c", "h">> THEN "HIGH"
  ELSE "MEDIUM"

\* The level of the DangerInfo analyzeToolDanger returns.
analyzeToolDanger(toolName, command) ==
  IF toolName = Bash THEN analyzeDangerLevel(command) ELSE getToolDangerLevel(toolName)

\* requestPermission: the body of the POST /permission request.
Payload(toolName, command, askListed) ==
  [tool_name |-> toolName, command |-> command, is_ask_listed |-> askListed]

\* handlePermission and showCurrentItem: the PopupData of a request (the
\* fields the claims are about).
PopupData(request) ==
  [toolName |-> request.tool_name,
   dangerLevel |-> analyzeToolDanger(request.tool_name, request.command)]

(***************************************************************************)
(* Approval server (NotifierServer) and its Electron front.                *)
(***************************************************************************)
MaxRequests == 3
MaxPopups == 2
MaxIpc == 1
MAX_QUEUE_SIZE == 100

Ids == 1..MaxRequests
Decisions == {"allow", "deny", "skip"}

Without(seq, id) == SelectSeq(seq, LAMBDA e : e # id)

\* findIndex(item => item.id === id): 0 stands for -1.
findIndex(q, id) == IF id \in Range(q) THEN CHOOSE i \in 1..Len(q) : q[i] = id ELSE 0

\* splice(index, 1)
splice(q, index) == SubSeq(q, 1, index - 1) \o SubSeq(q, index + 1, Len(q))

\* item.resolve(response): a promise settles once.
resolveWith(st, id, decision) ==
  IF st[id] = "pending" THEN [st EXCEPT ![id] = decision] ELSE st

\* The three server fields a handler changes.
ServerState(q, st, timers) == [queue |-> q, status |-> st, timerArmed |-> timers]

\* Mutant: a skip resolves the promise but leaves the item in the queue.
respondToPermission_KeepsSkipped(id, decision) ==
  LET index == findIndex(queue, id) IN
  IF index = 0 THEN ServerState(queue, status, timerArmed)
  ELSE IF decision = "skip"
  THEN ServerState(queue, resolveWith(status, queue[index], decision), timerArmed)
  ELSE ServerState(splice(queue, index), resolveWith(status, queue[index], decision),
                   timerArmed \ {queue[index]})

\* Mutant: the item at the head is resolved and removed, whatever the id.
respondToPermission_Head(id, decision) ==
  LET index == findIndex(queue, id) IN
  IF index = 0 THEN ServerState(queue, status, timerArmed)
  ELSE ServerState(splice(queue, 1), resolveWith(status, queue[1], decision),
                   timerArmed \ {queue[1]})

respondToPermission(id, decision) ==
  LET index == findIndex(queue, id) IN
  IF index = 0 THEN ServerState(queue, status, timerArmed)
  ELSE ServerState(splice(queue, index), resolveWith(status, queue[index], decision),
                   timerArmed \ {queue[index]})

getCurrentPermissionId(q) == IF Len(q) > 0 THEN q[1] ELSE 0

\* main.ts showPermission(data): buffer while the renderer is loading, else
\* switch to the permission view and send the popup to the renderer.
Front(a, p) == [app |-> a, popups |-> p]

showPermission(a, p, id) ==
  IF ~a.rendererReady THEN Front([a EXCEPT !.pendingPermission = id], p)
  ELSE Front([a EXCEPT !.currentView = "permission"], Append(p, id))

\* Mutant: the newest item of the queue is shown instead of the head.
showCurrentItem_Last(q, a, p) ==
  IF Len(q) = 0 THEN Front(a, p) ELSE showPermission(a, p, q[Len(q)])

\* server.ts showCurrentItem(): the head of the queue goes to the callback.
showCurrentItem(q, a, p) ==
  IF Len(q) = 0 THEN Front(a, p) ELSE showPermission(a, p, q[1])

hideWindow(a) == [a EXCEPT !.currentView = "none"]

\* After a decision: show the next permission, or hide.
showNextOrHide(q, a, p) ==
  IF Len(q) > 0 THEN showCurrentItem(q, a, p) ELSE Front(hideWindow(a), p)

\* The model follows the runs in which at most MaxPopups popup messages and
\* MaxIpc responses are in flight: a handler that may send a popup waits for room.
Room == Len(popups) < MaxPopups

Ran(op, id) == [op |-> op, id |-> id]

\* Mutant: the new item is put in front of the queue.
push_Front(q, id) == <<id>> \o q

\* this.queue.push(item)
push(q, id) == Append(q, id)

\* Mutant: the limit is tested after one more item is already in.
queueFull_OneMore(q) == Len(q) > MAX_QUEUE_SIZE

\* this.queue.length >= MAX_QUEUE_SIZE
queueFull(q) == Len(q) >= MAX_QUEUE_SIZE

\* POST /permission: handlePermission.  The model follows the runs with as
\* many arrivals as status has entries (MaxRequests of them, unless a
\* specification starts with more).
Submit ==
  /\ app.running
  /\ nextId \in DOMAIN status
  /\ Room
  /\ IF queueFull(queue)
     THEN /\ status' = [status EXCEPT ![nextId] = "rejected"]
          /\ nextId' = nextId + 1
          /\ UNCHANGED <<queue, timerArmed, popups, shown, ipc, app>>
     ELSE LET q == push(queue, nextId)
              f == showCurrentItem(q, app, popups)
          IN /\ queue' = q
             /\ status' = [status EXCEPT ![nextId] = "pending"]
             /\ timerArmed' = timerArmed \cup {nextId}
             /\ nextId' = nextId + 1
             /\ app' = f.app
             /\ popups' = f.popups
             /\ UNCHANGED <<shown, ipc>>
  /\ last' = Ran("submit", nextId)
  /\ UNCHANGED hookVars

\* Mutant: the timeout denies the request but does not remove it.
timeoutFires_KeepsItem(id) ==
  LET idx == findIndex(queue, id) IN
  IF idx = 0 THEN ServerState(queue, status, timerArmed \ {id})
  ELSE ServerState(queue, resolveWith(status, queue[idx], "deny"), timerArmed \ {id})

\* Mutant: the timer fires and leaves the request as it is.
timeoutFires_Nothing(id) == ServerState(queue, status, timerArmed \ {id})

\* The setTimeout callback of request id.  Every timer runs PERMISSION_TIMEOUT,
\* so the armed timer that was set first is the one that fires first.
timeoutFires(id) ==
  LET idx == findIndex(queue, id) IN
  IF idx = 0 THEN ServerState(queue, status, timerArmed \ {id})
  ELSE ServerState(splice(queue, idx), resolveWith(status, queue[idx], "deny"),
                   timerArmed \ {id})

Timeout(id) ==
  /\ Room
  /\ id \in timerArmed
  /\ \A other \in timerArmed : id <= other
  /\ LET s == timeoutFires(id)
         f == IF id \in Range(queue) /\ Len(s.queue) > 0
              THEN showCurrentItem(s.queue, app, popups) ELSE Front(app, popups)
     IN /\ queue' = s.queue
        /\ status' = s.status
        /\ timerArmed' = s.timerArmed
        /\ app' = f.app
        /\ popups' = f.popups
  /\ last' = Ran("timeout", id)
  /\ UNCHANGED <<nextId, shown, ipc>>
  /\ UNCHANGED hookVars

\* renderer: showPermissionView(data)
RendererShow ==
  /\ popups # <<>>
  /\ shown' = Head(popups)
  /\ popups' = Tail(popups)
  /\ last' = Ran("other", 0)
  /\ UNCHANGED <<queue, status, timerArmed, nextId, ipc, app>>
  /\ UNCHANGED hookVars

\* renderer: respond(decision), from a button or a key
RendererRespond(decision) ==
  /\ shown # 0
  /\ Len(ipc) < MaxIpc
  /\ ipc' = Append(ipc, [id |-> shown, decision |-> decision])
  /\ shown' = 0
  /\ last' = Ran("other", 0)
  /\ UNCHANGED <<queue, status, timerArmed, nextId, popups, app>>
  /\ UNCHANGED hookVars

\* What a handler of main.ts does with a decision for id: respond, then
\* show the next item or hide.
decide(id, decision) ==
  LET s == respondToPermission(id, decision)
      f == showNextOrHide(s.queue, app, popups)
  IN /\ queue' = s.queue
     /\ status' = s.status
     /\ timerArmed' = s.timerArmed
     /\ app' = f.app
     /\ popups' = f.popups

\* ipcMain.on('permission-response')
PermissionResponse ==
  /\ Room
  /\ ipc # <<>>
  /\ app.running
  /\ decide(Head(ipc).id, Head(ipc).decision)
  /\ ipc' = Tail(ipc)
  /\ last' = Ran("response", Head(ipc).id)
  /\ UNCHANGED <<nextId, shown>>
  /\ UNCHANGED hookVars

\* The global shortcuts, registered while the window is shown.
Shortcut(decision) ==
  /\ Room
  /\ app.running
  /\ app.currentView = "permission"
  /\ getCurrentPermissionId(queue) # 0
  /\ decide(getCurrentPermissionId(queue), decision)
  /\ last' = Ran("shortcut", getCurrentPermissionId(queue))
  /\ UNCHANGED <<nextId, shown, ipc>>
  /\ UNCHANGED hookVars

\* window.on('blur'): skip the head, show the next item or hide.
Blur ==
  /\ Room
  /\ app.running
  /\ app.currentView = "permission"
  /\ IF Len(queue) > 0
     THEN decide(getCurrentPermissionId(queue), "skip")
     ELSE /\ app' = hideWindow(app)
          /\ UNCHANGED <<queue, status, timerArmed, popups>>
  /\ last' = Ran("blur", getCurrentPermissionId(queue))
  /\ UNCHANGED <<nextId, shown, ipc>>
  /\ UNCHANGED hookVars

\* The tray icon's onClick: reshowCurrentItem.
TrayClick ==
  /\ app.running
  /\ Len(queue) > 0
  /\ Room
  /\ LET f == showCurrentItem(queue, app, popups) IN
     /\ app' = f.app
     /\ popups' = f.popups
  /\ last' = Ran("other", 0)
  /\ UNCHANGED <<queue, status, timerArmed, nextId, shown, ipc>>
  /\ UNCHANGED hookVars

\* webContents 'did-finish-load': flush the buffered popup.
DidFinishLoad ==
  /\ Room
  /\ ~app.rendererReady
  /\ LET a == [app EXCEPT !.rendererReady = TRUE, !.pendingPermission = 0]
         f == IF app.pendingPermission # 0
              THEN showPermission(a, popups, app.pendingPermission) ELSE Front(a, popups)
     IN /\ app' = f.app
        /\ popups' = f.popups
  /\ last' = Ran("other", 0)
  /\ UNCHANGED <<queue, status, timerArmed, nextId, shown, ipc>>
  /\ UNCHANGED hookVars

\* server.stop(): deny everything that is pending.
RECURSIVE denyAll(_, _)
\* Mutant: stop() denies every request the server ever accepted.
denyAll_Everyone(q, st) ==
  [id \in Ids |-> IF st[id] \in Decisions \cup {"pending"} THEN "deny" ELSE st[id]]

denyAll(q, st) ==
  IF q = <<>> THEN st ELSE denyAll(Tail(q), resolveWith(st, Head(q), "deny"))

Stop ==
  /\ app.running
  /\ status' = denyAll(queue, status)
  /\ timerArmed' = timerArmed \ Range(queue)
  /\ queue' = <<>>
  /\ app' = [app EXCEPT !.running = FALSE]
  /\ last' = Ran("stop", 0)
  /\ UNCHANGED <<nextId, popups, shown, ipc>>
  /\ UNCHANGED hookVars

\* A direct call of the public method respondToPermission(id, decision), with
\* any id and any decision, before or after stop() (no front: the caller
\* shows nothing afterwards).
Respond(id, decision) ==
  /\ LET s == respondToPermission(id, decision) IN
     /\ queue' = s.queue
     /\ status' = s.status
     /\ timerArmed' = s.timerArmed
  /\ last' = [op |-> "respond", id |-> id, decision |-> decision]
  /\ UNCHANGED <<nextId, popups, shown, ipc, app>>
  /\ UNCHANGED hookVars

\* Mutant: a skip is written as a deny.
hookOutput_SkipDenies(decision) == IF decision = "allow" THEN "allow" ELSE "deny"

\* The hook of request id reads the response: skip writes nothing, allow
\* writes allow, anything else writes deny.
\* Mutant: only an explicit deny is written as a deny.
hookOutput_OnlyDenyDenies(decision) ==
  IF decision = "allow" THEN "allow"
  ELSE IF decision = "deny" THEN "deny"
  ELSE "none"

hookOutput(decision) ==
  IF decision = "skip" THEN "none"
  ELSE IF decision = "allow" THEN "allow"
  ELSE "deny"

\* requestPermission: the 'timeout' event of the hook's http request, armed
\* with TIMEOUT_MS when the request was sent: req.destroy(), reject, and
\* main() catches and exits 0 with nothing written.  The server is not told.
HookTimeout(id) ==
  /\ status[id] # "unborn"
  /\ client[id] = "waiting"
  /\ client' = [client EXCEPT ![id] = "none"]
  /\ UNCHANGED <<parser, stdin, fs, hook, call>>
  /\ UNCHANGED serverVars

\* requestPermission: the response of the server arrives and main() writes
\* its output.
HookReceive(id) ==
  /\ status[id] \in Decisions \cup {"rejected"}
  /\ client[id] = "waiting"
  /\ client' = [client EXCEPT ![id] = hookOutput(status[id])]
  /\ UNCHANGED <<parser, stdin, fs, hook, call>>
  /\ UNCHANGED serverVars

\* healthCheck(): the socket file is absent, the request fails, times out or
\* answers something else than status ok (false), or the app answers (true).
HealthCheck ==
  /\ hook.pc = "health"
  /\ \E isRunning \in BOOLEAN :
       hook' = IF isRunning THEN [hook EXCEPT !.pc = "request"]
               ELSE [hook EXCEPT !.pc = "exit", !.answer = "appDown"]
  /\ UNCHANGED <<parser, stdin, fs, client, call>>

\* What requestPermission can end with: a response carrying a decision, the
\* 429 body (no decision field), or a rejection (connection error, invalid
\* response, the hook's own timeout).
Rejections == {"error", "invalidResponse", "timeout"}
Responses == Decisions \cup {"rejected"}

\* await requestPermission(...) and what main() writes.
RequestPermission ==
  /\ hook.pc = "request"
  /\ \E result \in Responses \cup Rejections :
       hook' = [hook EXCEPT !.pc = "exit", !.answer = result,
                            !.output = IF result \in Rejections THEN "none"
                                       ELSE hookOutput(result)]
  /\ UNCHANGED <<parser, stdin, fs, client, call>>

InitServer ==
  /\ queue = <<>>
  /\ status = [id \in Ids |-> "unborn"]
  /\ timerArmed = {}
  /\ nextId = 1
  /\ popups = <<>>
  /\ shown = 0
  /\ ipc = <<>>
  /\ app = [currentView |-> "none", rendererReady |-> FALSE, pendingPermission |-> 0,
            running |-> TRUE]
  /\ last = Ran("other", 0)

\* webContents 'did-fail-load'
DidFailLoad ==
  /\ app.rendererReady
  /\ app' = [app EXCEPT !.rendererReady = FALSE]
  /\ last' = Ran("other", 0)
  /\ UNCHANGED <<queue, status, timerArmed, nextId, popups, shown, ipc>>
  /\ UNCHANGED hookVars

(***************************************************************************)
(* The universe of inputs: settings files and stdin records.               *)
(***************************************************************************)
Missing ==
  [kind |-> "missing", bypassPermissions |-> FALSE, hasPermissions |-> FALSE,
   defaultMode |-> "default", allow |-> Absent, deny |-> Absent, ask |-> Absent]
Malformed == [Missing EXCEPT !.kind = "malformed"]

Settings(bypass, mode, allow, deny, ask) ==
  [kind |-> "json", bypassPermissions |-> bypass, hasPermissions |-> TRUE,
   defaultMode |-> mode, allow |-> allow, deny |-> deny, ask |-> ask]

\* A file that is valid JSON with a top-level bypass flag and no permissions key.
BypassOnly == [Missing EXCEPT !.kind = "json", !.bypassPermissions = TRUE]

p_lsAny == <<"l", "s", ":", "*">>
p_ls == <<"l", "s">>
p_rmAny == <<"r", "m", ":", "*">>
p_star == <<"*">>
p_mcp == <<"m", "c", "p", "_", "_", "*">>

AllowLists ==
  { Absent,
    Array(<<BashEntry(p_lsAny)>>),
    Array(<<BashEntry(p_ls), BashEntry(p_rmAny), Str(Edit)>>),
    Array(<<BashEntry(p_star), Str(p_mcp), NotAString>>) }
DenyLists == { Absent, Array(<<BashEntry(p_rmAny), Str(Edit), Str(Read)>>) }
AskLists == { Absent, Array(<<BashEntry(p_lsAny), Str(Edit), Str(Read)>>) }

GlobalFiles ==
  { Settings(FALSE, "default", a, d, k) : a \in AllowLists, d \in DenyLists, k \in AskLists }
  \cup { Missing, Malformed, BypassOnly }

SharedFiles ==
  { Missing, Malformed,
    Settings(FALSE, "default", Absent, Array(<<BashEntry(p_rmAny)>>), NotAnArray),
    Settings(FALSE, "default", Array(<<BashEntry(p_star), Str(Edit)>>), Absent, Absent),
    Settings(TRUE, "bypassPermissions", Absent, Absent, Array(<<BashEntry(p_lsAny)>>)) }

LocalFiles ==
  { Missing, Malformed,
    Settings(FALSE, "default", Array(<<BashEntry(p_rmAny)>>), Array(<<Str(p_mcp)>>),
             Array(<<BashEntry(p_ls)>>)),
    Settings(FALSE, "bypassPermissions", Absent, Absent, Absent),
    BypassOnly }

Dirs == 0..CwdDepth

FileSystem(global, root, shared, local) ==
  [global |-> global,
   claudeDirs |-> IF root = NoRoot THEN {} ELSE {root},
   shared |-> [d \in Dirs |-> IF d = root THEN shared ELSE Missing],
   local |-> [d \in Dirs |-> IF d = root THEN local ELSE Missing]]

FileSystems ==
  { FileSystem(g, NoRoot, Missing, Missing) : g \in GlobalFiles }
  \cup { FileSystem(g, r, sh, lo) :
           g \in GlobalFiles, r \in Dirs, sh \in SharedFiles, lo \in LocalFiles }

Invocation(tool, mode, command) ==
  [kind |-> "json", tool_name |-> tool, permission_mode |-> mode, command |-> command]

RawCommands ==
  { Programs[i].src : i \in 1..Len(Programs) }
  \cup { <<" ">> \o w_ls \o <<" ">>, <<" ", " ">> }

Stdins ==
  { Invocation(Bash, "default", c) : c \in RawCommands }
  \cup { Invocation(t, "default", <<>>) : t \in {Read, Glob, Grep, Edit, McpTool} }
  \cup { Invocation(Bash, "bypassPermissions", c) : c \in {Programs[1].src, Programs[4].src, Programs[15].src} }
  \cup { [Invocation(<<>>, "default", <<>>) EXCEPT !.kind = "malformed"],
         [Invocation(<<>>, "default", <<>>) EXCEPT !.kind = "null"] }

(***************************************************************************)
(* Specifications                                                          *)
(***************************************************************************)
\* The hook, one run of main() over every input of the universe.
InitHookIdle ==
  /\ parser = "unset"
  /\ stdin = Invocation(Bash, "default", <<>>)
  /\ fs = FileSystem(Missing, NoRoot, Missing, Missing)
  /\ hook = [HookStart EXCEPT !.pc = "idle"]
  /\ client = [id \in Ids |-> "waiting"]
  /\ call = NoCall

InitResolve ==
  /\ parser = "unset"
  /\ stdin \in Stdins
  /\ fs \in FileSystems
  /\ hook = HookStart
  /\ client = [id \in Ids |-> "waiting"]
  /\ call = NoCall
  /\ InitServer

NextResolve ==
  \/ InitTreeSitter /\ UNCHANGED serverVars
  \/ ReadStdin /\ UNCHANGED serverVars
  \/ Resolve /\ UNCHANGED serverVars
  \/ HealthCheck /\ UNCHANGED serverVars
  \/ RequestPermission /\ UNCHANGED serverVars

SpecResolve == InitResolve /\ [][NextResolve]_vars

\* The exported functions called directly (as the unit tests do), on strings
\* chosen for the matcher's cases.
MatchCommands ==
  { <<"p", "w", "d">>,
    <<"p", "w", "d", "x">>,
    <<"p", "w", "d", " ", "-", "L">>,
    <<"p", "w", "d", "\t", "x">>,
    <<" ", "p", "w", "d">>,
    <<"A", "=", "1", " ", "p", "w", "d">>,
    <<"A", "=", "1", " ", "p", "w", "d", "x">>,
    <<"A", "=", "1", " ", "B", "=", "2", " ", "p", "w", "d", " ", "-", "L">>,
    <<"A", "=", "1", " ">>,
    <<"A", "=", "1">>,
    <<"A", "=", "'", "a", " ", "b", "'", " ", "p", "w", "d">>,
    <<"g", "i", "t", " ", "s", "t", "a", "t", "u", "s">>,
    <<"g", "i", "t", " ", "s", "t", "a", "t", "u", "s", " ", "-", "-", "s", "h", "o", "r", "t">>,
    <<"g", "i", "t", " ", "c", "o", "m", "m", "i", "t">>,
    <<>> }

MatchPatterns ==
  { <<"p", "w", "d">>,
    <<"p", "w", "d", " ", "-", "L">>,
    <<"A", "=", "1">>,
    <<"g", "i", "t", " ", "s", "t", "a", "t", "u", "s">>,
    <<>>,
    <<"p", "w", "d", ":", "*">>,
    <<"p", "*", "d">> }

\* The command strings whose syntax trees the model has.
ExtractCommands == { AllPrograms[i].src : i \in 1..Len(AllPrograms) }

\* matchesSingleCommand(command, [pattern])
ApplyMatch(command, pattern) ==
  /\ parser # "unset"
  /\ call' = [fn |-> "matchesSingleCommand", command |-> command, pattern |-> pattern,
              result |-> matchesSingleCommand(command, <<pattern>>)]
  /\ UNCHANGED <<parser, stdin, fs, hook, client>>
  /\ UNCHANGED serverVars

\* parseAndExtractCommands(command)
ApplyExtract(command) ==
  /\ parser # "unset"
  /\ call' = [fn |-> "parseAndExtractCommands", command |-> command,
              result |-> parseAndExtractCommands(command)]
  /\ UNCHANGED <<parser, stdin, fs, hook, client>>
  /\ UNCHANGED serverVars

NextPure ==
  \/ InitTreeSitter /\ UNCHANGED serverVars
  \/ \E command \in MatchCommands, pattern \in MatchPatterns : ApplyMatch(command, pattern)
  \/ \E command \in ExtractCommands : ApplyExtract(command)

InitPure ==
  /\ parser = "unset"
  /\ stdin = Invocation(Bash, "default", <<>>)
  /\ fs = FileSystem(Missing, NoRoot, Missing, Missing)
  /\ hook = HookStart
  /\ client = [id \in Ids |-> "waiting"]
  /\ call = NoCall
  /\ InitServer

SpecPure == InitPure /\ [][NextPure]_vars

\* A run of the hook goes on: each await of main() returns (stdin is closed by
\* the caller, the requests end with a response, an error or their timeout).
SpecRun == SpecResolve /\ WF_vars(NextResolve)

\* The approval server with its front and the hooks waiting on it.
Init == InitHookIdle /\ InitServer

Next ==
  \/ Submit
  \/ \E id \in Ids : Timeout(id)
  \/ RendererShow
  \/ \E decision \in Decisions : RendererRespond(decision)
  \/ PermissionResponse
  \/ \E decision \in {"allow", "deny"} : Shortcut(decision)
  \/ Blur
  \/ TrayClick
  \/ DidFinishLoad
  \/ DidFailLoad
  \/ Stop

Spec == Init /\ [][Next]_vars

\* The coordinator alone, driven through its public methods: requests come
\* in, timers fire, and respondToPermission is called with any id.
NextCoordinator ==
  \/ Submit
  \/ \E id \in Ids : Timeout(id)
  \/ RendererShow
  \/ DidFinishLoad
  \/ \E id \in Ids, decision \in Decisions : Respond(id, decision)
  \/ Stop

SpecCoordinator == Init /\ [][NextCoordinator]_vars

\* Scheduling: an armed timer that is due fires (Node's event loop runs its
\* callback; the wait for room in Timeout is the model's bound, hence strong
\* fairness), and a popup sent to the renderer is delivered.  Nothing is
\* assumed of the person in front of the popup, nor of shutdown.
Fairness ==
  /\ \A id \in Ids : SF_vars(Timeout(id))
  /\ WF_vars(RendererShow)

SpecLive == Init /\ [][Next]_vars /\ Fairness

\* The hooks and the coordinator when nobody answers the popup: the
\* coordinator's PERMISSION_TIMEOUT timer against the hook's TIMEOUT_MS timer.
NextTransport ==
  \/ Submit
  \/ \E id \in Ids : Timeout(id)
  \/ RendererShow
  \/ DidFinishLoad
  \/ \E id \in Ids : HookTimeout(id)
  \/ \E id \in Ids : HookReceive(id)

SpecTransport == Init /\ [][NextTransport]_vars

\* A burst: enough arrivals to fill the queue and ExtraArrivals more, with
\* the timers firing and the renderer loading and showing meanwhile.
ExtraArrivals == 2
Arrivals == 1..(MAX_QUEUE_SIZE + ExtraArrivals)

InitBurst ==
  /\ InitHookIdle
  /\ queue = <<>>
  /\ status = [id \in Arrivals |-> "unborn"]
  /\ timerArmed = {}
  /\ nextId = 1
  /\ popups = <<>>
  /\ shown = 0
  /\ ipc = <<>>
  /\ app = [currentView |-> "none", rendererReady |-> FALSE, pendingPermission |-> 0,
            running |-> TRUE]
  /\ last = Ran("other", 0)

NextBurst ==
  \/ Submit
  \/ \E id \in Arrivals : Timeout(id)
  \/ RendererShow
  \/ DidFinishLoad

SpecBurst == InitBurst /\ [][NextBurst]_vars

(***************************************************************************)
(* Properties of the policy resolver (SpecResolve)                         *)
(***************************************************************************)
IsBash == stdin.kind = "json" /\ stdin.tool_name = Bash

\* The exits of main() taken after loadPermissionSettings, and those among
\* them that evaluate the permission lists.
LoadedExits == {"bypassSettings", "emptyCommand", "denyList", "allowList", "allCovered", "popup"}
ListExits == {"denyList", "allowList", "allCovered", "popup"}

SomeMatch(commands, patterns) ==
  \E cmd \in Range(commands) : matchesSingleCommand(cmd, patterns)
EveryMatch(commands, patterns) ==
  \A cmd \in Range(commands) : matchesSingleCommand(cmd, patterns)

\* C1 (amended): when a Bash invocation ends in AutoAllow through the allow
\* list (the allow-list exit or the all-covered exit), the extraction of its
\* command has hasUnresolvable = FALSE.
C1_AllowListNeedsResolvedParse ==
  (IsBash /\ hook.verdict = "AutoAllow" /\ hook.via \in {"allowList", "allCovered"})
    => ~parseAndExtractCommands(hook.command).hasUnresolvable

\* A command with a substitution, fully resolved, allowed through the allow list.
C1_Witness ==
  /\ IsBash /\ parser = "ok"
  /\ hook.verdict = "AutoAllow" /\ hook.via = "allowList"
  /\ hook.command = Programs[10].src
  /\ ~parseAndExtractCommands(hook.command).hasUnresolvable

\* C1 as stated: on every path, AutoAllow of a Bash invocation implies that
\* the extraction of its command has hasUnresolvable = FALSE.
C1_Original ==
  (IsBash /\ hook.verdict = "AutoAllow")
    => ~parseAndExtractCommands(trim(stdin.command)).hasUnresolvable

RECURSIVE SubstitutedCommands(_, _)
SubstitutedCommands(node, inside) ==
  (IF inside /\ node.type = "command" THEN {node.text} ELSE {})
  \cup UNION { SubstitutedCommands(child, inside \/ node.type = "command_substitution") :
                 child \in Range(node.children) }

\* C3: a Bash command with a substitution whose inner command matches a deny
\* pattern is never AutoAllow once the lists are evaluated.
C3_DeniedSubstitutionNeverAllowed ==
  (IsBash /\ hook.via \in ListExits
     /\ \E inner \in SubstitutedCommands(parse(hook.command).rootNode, FALSE) :
          matchesSingleCommand(inner, hook.perms.deny.bashPatterns))
    => hook.verdict # "AutoAllow"

\* C4: a Bash invocation that is AutoAllow past the bypass rules has an empty
\* command or every extracted sub-command matches an allow pattern.
C4_AllowNeedsEverySubCommand ==
  (IsBash /\ hook.verdict = "AutoAllow" /\ hook.via \in LoadedExits \ {"bypassSettings"})
    => \/ hook.command = <<>>
       \/ EveryMatch(parseAndExtractCommands(hook.command).commands,
                     hook.perms.allow.bashPatterns)

\* "ls && rm x" with ls allowed and rm x not: approval is needed for rm x.
C4_Witness ==
  /\ IsBash /\ parser = "ok"
  /\ hook.command = Programs[4].src
  /\ hook.verdict = "NeedsApproval" /\ ~hook.isAskListed
  /\ hook.unmatchedCommands.commands = <<Programs[2].src>>
  /\ matchesSingleCommand(w_ls, hook.perms.allow.bashPatterns)

AskMatch ==
  IF IsBash
  THEN SomeMatch(parseAndExtractCommands(hook.command).commands, hook.perms.ask.bashPatterns)
  ELSE matchesToolPattern(stdin.tool_name, hook.perms.ask.toolPatterns)

DenyMatch ==
  IF IsBash
  THEN SomeMatch(parseAndExtractCommands(hook.command).commands, hook.perms.deny.bashPatterns)
  ELSE matchesToolPattern(stdin.tool_name, hook.perms.deny.toolPatterns)

LayerBypass(file) ==
  /\ file.kind = "json"
  /\ file.bypassPermissions \/ (file.hasPermissions /\ file.defaultMode = "bypassPermissions")

\* The allow entries of one settings file.
LayerAllow(file) ==
  IF file.kind = "json" /\ file.hasPermissions THEN parsePermissionList(file.allow)
  ELSE EmptyList

ProjectRoot == findProjectRoot(CwdDepth)
SharedFile == IF ProjectRoot = NoRoot THEN Missing ELSE fs.shared[ProjectRoot]
LocalFile == IF ProjectRoot = NoRoot THEN Missing ELSE fs.local[ProjectRoot]

\* C6: the merged bypass flag is the OR of the bypass indicators of the global
\* and the project-local file; the shared project file has no part in it.
C6_BypassFromTrustedLayers ==
  hook.via \in LoadedExits
    => hook.perms.bypassPermissions = (LayerBypass(fs.global) \/ LayerBypass(LocalFile))

\* The shared project file asks for bypass and the merged policy has none.
C6_Witness ==
  /\ hook.via \in LoadedExits
  /\ LayerBypass(SharedFile)
  /\ ~hook.perms.bypassPermissions

Notified(id) ==
  IF app.rendererReady THEN popups # <<>> /\ popups[Len(popups)] = id
  ELSE app.pendingPermission = id

\* C8: after the timeout of a pending request, the request is resolved with
\* deny and is out of the queue, and the head of a non-empty queue is notified.
C8_TimeoutDenies ==
  last.op = "timeout"
    => /\ status[last.id] = "deny"
       /\ last.id \notin Range(queue)
       /\ last.id \notin timerArmed
       /\ queue # <<>> => Notified(queue[1])

\* A timeout with another request left in the queue.
C8_Witness ==
  /\ last.op = "timeout"
  /\ status[last.id] = "deny"
  /\ queue # <<>> /\ Notified(queue[1])

\* C9 (amended): a skip resolves the request with "skip" and removes it from the
\* queue with its timer; the waiting hook writes no verdict; the request stays
\* skipped.
C9_SkipResolvesAndRemoves ==
  [][\A id \in Ids :
       /\ status[id] = "skip" => status'[id] = "skip"
       /\ status'[id] = "skip" =>
            /\ id \notin Range(queue')
            /\ id \notin timerArmed'
            /\ hookOutput(status'[id]) = "none"]_vars

\* Focus loss skipped the head while another request waits.
C9_Witness ==
  /\ last.op = "blur" /\ last.id # 0
  /\ status[last.id] = "skip"
  /\ queue # <<>>

\* C9 as stated: a skipped request is still in the queue.
C9_Original == \A id \in Ids : status[id] = "skip" => id \in Range(queue)

NoOvertaking ==
  \A i, j \in Ids : (i < j /\ status[j] \in {"allow", "deny"}) => status[i] # "pending"

\* C10: no request is allowed or denied while an earlier request is pending,
\* and a decision of the front (a response, a shortcut, a focus loss) resolves
\* only the head of the queue.
C10_DecisionsInArrivalOrder ==
  [][/\ NoOvertaking'
     /\ \A id \in Ids :
          (status[id] = "pending" /\ status'[id] \in Decisions
             /\ last'.op \in {"response", "shortcut", "blur"})
            => id = queue[1]]_vars

\* The second request allowed after the first was skipped.
C10_Witness ==
  /\ status[1] = "skip"
  /\ status[2] = "allow"
  /\ last.op \in {"response", "shortcut"} /\ last.id = 2

(***************************************************************************)
(* Properties of the queue (Spec, SpecCoordinator)                         *)
(***************************************************************************)
Pending == {id \in Ids : status[id] = "pending"}

\* Ids are handed out in arrival order, so the oldest of a set is its least.
Oldest(S) == CHOOSE id \in S : \A other \in S : id <= other

\* C11: at all times the queue is a duplicate-free sequence that holds exactly
\* the pending requests, in arrival order, and getCurrentPermissionId() is
\* the id of the oldest pending request, or null (0) when there is none.
C11_QueueIsPendingInArrivalOrder ==
  /\ \A i, j \in 1..Len(queue) : i < j => queue[i] < queue[j]
  /\ Range(queue) = Pending
  /\ getCurrentPermissionId(queue) = IF Pending = {} THEN 0 ELSE Oldest(Pending)

\* Two requests wait behind one that is already resolved.
C11_Witness ==
  /\ queue = <<2, 3>>
  /\ status[1] \in Decisions
  /\ getCurrentPermissionId(queue) = 2

\* C12: respondToPermission(id, decision) on a queued id resolves that request
\* with that decision, removes it alone and clears its timer; every other
\* request keeps its status, its place relative to the others and its timer;
\* on an id that is not queued nothing changes.
C12_DecideTouchesOnlyItsRequest ==
  [][last'.op = "respond" =>
       LET id == last'.id IN
       IF id \in Range(queue)
       THEN /\ status' = [status EXCEPT ![id] = last'.decision]
            /\ queue' = Without(queue, id)
            /\ timerArmed' = timerArmed \ {id}
       ELSE UNCHANGED <<queue, status, timerArmed>>]_vars

\* The middle one of three queued requests was allowed; the other two wait.
C12_Witness ==
  /\ last.op = "respond" /\ last.id = 2 /\ last.decision = "allow"
  /\ status[2] = "allow"
  /\ queue = <<1, 3>>
  /\ timerArmed = {1, 3}

\* C13: every request that handlePermission accepted is eventually resolved
\* with a decision, whether or not anybody answers the popup.
C13_AcceptedEventuallyResolved ==
  \A id \in Ids : (status[id] = "pending") ~> (status[id] \in Decisions)

\* All requests were accepted and resolved, the last ones by shutdown, and
\* the renderer never sent a response for the second.
C13_Witness ==
  /\ nextId > MaxRequests
  /\ \A id \in Ids : status[id] \in Decisions
  /\ status[1] = "allow" /\ status[2] = "deny"
  /\ last.op = "stop"

(***************************************************************************)
(* Properties of the hook waiting on the coordinator (SpecTransport)       *)
(***************************************************************************)
\* C14: nobody answers, so every deny is the coordinator's timeout; a hook
\* whose request was denied by that timeout and that has finished has
\* written the deny verdict.
C14_TimeoutObservedAsDeny ==
  \A id \in Ids :
    (status[id] = "deny" /\ client[id] # "waiting") => client[id] = "deny"

(***************************************************************************)
(* Properties of a whole run of the hook (SpecRun)                         *)
(***************************************************************************)
\* How a finished run is classified: nothing written after AutoAllow, the
\* deny verdict after AutoDeny, and after NeedsApproval the app's allow or
\* deny, or nothing written when the app is down, the request fails or times
\* out, or the answer is skip.
Classified ==
  /\ hook.verdict \in {"AutoAllow", "AutoDeny", "NeedsApproval"}
  /\ hook.verdict = "AutoAllow" => hook.output = "none" /\ hook.answer = "none"
  /\ hook.verdict = "AutoDeny" => hook.output = "deny" /\ hook.answer = "none"
  /\ hook.verdict = "NeedsApproval" =>
        /\ hook.answer = "allow" => hook.output = "allow"
        /\ hook.answer \in {"deny", "rejected"} => hook.output = "deny"
        /\ hook.answer \in {"appDown", "skip"} \cup Rejections => hook.output = "none"
        /\ hook.answer # "none"

\* C15: every run of the hook, whatever its input, the parser, the settings
\* files and the app do, reaches exit(0) with exactly one classified outcome;
\* after NeedsApproval that outcome may be that nothing is written.
C15_EveryRunEndsClassified == <>(hook.pc = "exit" /\ Classified)

\* The parser failed to initialise, the shared settings file is malformed and
\* the request to the app failed: the run ends with nothing written.
C15_Witness ==
  /\ hook.pc = "exit"
  /\ parser = "null"
  /\ SharedFile.kind = "malformed"
  /\ hook.verdict = "NeedsApproval"
  /\ hook.answer = "error"
  /\ hook.output = "none"

\* C15 as stated: a finished run is AutoAllow, AutoDeny, or NeedsApproval
\* followed by an allow or deny decision.
C15_Original ==
  hook.pc = "exit" =>
    \/ hook.verdict \in {"AutoAllow", "AutoDeny"}
    \/ hook.verdict = "NeedsApproval" /\ hook.output \in {"allow", "deny"}

(***************************************************************************)
(* Properties of the short-circuit rules and of the policy store           *)
(***************************************************************************)
Resolved == hook.pc \in {"health", "request", "exit"}

\* C16: an invocation of Read, Glob or Grep resolves to AutoAllow whatever the
\* settings files hold, a deny or ask entry naming the tool included.
C16_ReadOnlyToolsAllowed ==
  (stdin.kind = "json" /\ stdin.tool_name \in SAFE_TOOLS /\ Resolved)
    => (hook.verdict = "AutoAllow" /\ hook.pc = "exit" /\ hook.output = "none")

\* Read is allowed although the merged deny and ask lists name it.
C16_Witness ==
  /\ stdin.kind = "json" /\ stdin.tool_name = Read
  /\ stdin.permission_mode = "default"
  /\ hook.pc = "exit" /\ hook.verdict = "AutoAllow" /\ hook.via = "safeTool"
  /\ \E perms \in {loadPermissionSettings(CwdDepth)} :
       /\ ~perms.bypassPermissions
       /\ matchesToolPattern(Read, perms.deny.toolPatterns)
       /\ matchesToolPattern(Read, perms.ask.toolPatterns)

\* C17: when stdin carries permission_mode bypassPermissions, or the merged
\* settings have bypassPermissions, the run is AutoAllow with nothing written,
\* whatever the deny, ask and allow lists hold.
C17_BypassAllowsEverything ==
  (stdin.kind = "json" /\ Resolved) =>
    \E perms \in {loadPermissionSettings(CwdDepth)} :
      (stdin.permission_mode = "bypassPermissions" \/ perms.bypassPermissions)
        => (hook.verdict = "AutoAllow" /\ hook.pc = "exit" /\ hook.output = "none")

\* The settings bypass allowed a Bash command with a sub-command on the deny list.
C17_Witness ==
  /\ IsBash /\ parser = "ok"
  /\ stdin.permission_mode = "default"
  /\ stdin.command = Programs[4].src
  /\ hook.pc = "exit" /\ hook.verdict = "AutoAllow" /\ hook.via = "bypassSettings"
  /\ matchesCommandPattern(trim(stdin.command), hook.perms.deny.bashPatterns, "any")

Keys == {"allow", "deny", "ask"}

\* The three layers in reading order; bypass is read from the trusted ones.
Layers ==
  << [file |-> fs.global, trusted |-> TRUE],
     [file |-> SharedFile, trusted |-> FALSE],
     [file |-> LocalFile, trusted |-> TRUE] >>

\* A layer fails when its file is missing, unreadable or no valid JSON.
Failing(file) == file.kind \in {"missing", "malformed"}

\* The list a readable file holds under key.
LayerList(file, key) ==
  IF file.hasPermissions THEN parsePermissionList(file[key]) ELSE EmptyList

\* The policy made of readable layers alone, first layer first.
RECURSIVE MergeOf(_)
MergeOf(layers) ==
  IF layers = <<>> THEN EmptyPolicy
  ELSE LET before == MergeOf(SubSeq(layers, 1, Len(layers) - 1))
           layer == layers[Len(layers)]
           Add(key) ==
             [bashPatterns |-> before[key].bashPatterns
                                 \o LayerList(layer.file, key).bashPatterns,
              toolPatterns |-> before[key].toolPatterns
                                 \o LayerList(layer.file, key).toolPatterns]
       IN [allow |-> Add("allow"), deny |-> Add("deny"), ask |-> Add("ask"),
           bypassPermissions |-> before.bypassPermissions
                                   \/ (layer.trusted /\ isBypassPermissions(layer.file))]

\* C18: when some layer's file is missing, unreadable or malformed, the load
\* still returns a policy, and it is the policy of the other layers alone;
\* when all three fail it is three empty lists (six empty pattern lists) and
\* no bypass.
C18_FailingLayersContributeNothing ==
  (hook.via \in LoadedExits /\ \E i \in 1..3 : Failing(Layers[i].file)) =>
    /\ hook.perms = MergeOf(SelectSeq(Layers, LAMBDA layer : ~Failing(layer.file)))
    /\ (\A i \in 1..3 : Failing(Layers[i].file)) => hook.perms = EmptyPolicy

\* The global and the shared file are malformed and the local file's entries
\* are the whole policy.
C18_Witness ==
  /\ hook.via \in LoadedExits
  /\ fs.global.kind = "malformed" /\ SharedFile.kind = "malformed"
  /\ LocalFile.kind = "json"
  /\ hook.perms.allow.bashPatterns = <<p_rmAny>>
  /\ hook.perms.deny.toolPatterns = <<p_mcp>>

Nth(S, k) == CHOOSE i \in S : Cardinality({j \in S : j < i}) = k - 1

\* C20: a Bash invocation that needs approval carries the extracted
\* sub-commands that match no allow pattern: all of them, no other, each as
\* often and in the order in which it was extracted.
C20_UnmatchedAreTheNotAllowed ==
  (IsBash /\ hook.verdict = "NeedsApproval") =>
    \E r \in {parseAndExtractCommands(hook.command)} :
      LET notAllowed == {i \in 1..Len(r.commands) :
                          ~matchesSingleCommand(r.commands[i], hook.perms.allow.bashPatterns)}
          unmatched == hook.unmatchedCommands.commands
      IN /\ hook.unmatchedCommands.present
         /\ hook.unmatchedCommands.hasUnresolvable = r.hasUnresolvable
         /\ Len(unmatched) = Cardinality(notAllowed)
         /\ \A k \in 1..Len(unmatched) : unmatched[k] = r.commands[Nth(notAllowed, k)]

\* "ls && rm x" with the allow list ["ls:*"] and no deny match: the detail is
\* ["rm x"].
C20_Witness ==
  /\ IsBash /\ parser = "ok"
  /\ hook.command = Programs[4].src
  /\ hook.perms.allow.bashPatterns = <<p_lsAny>>
  /\ hook.perms.deny.bashPatterns = <<>>
  /\ hook.verdict = "NeedsApproval"
  /\ hook.unmatchedCommands = [present |-> TRUE, commands |-> <<Programs[2].src>>,
                               hasUnresolvable |-> FALSE]

(***************************************************************************)
(* Properties of the exported functions (SpecPure)                         *)
(***************************************************************************)
IsExact(pattern) == ~EndsWith(pattern, <<":", "*">>) /\ ~Includes(pattern, "*")

Matched == call.fn = "matchesSingleCommand" /\ IsExact(call.pattern)

Sent ==
  /\ hook.verdict = "NeedsApproval"
  /\ hook.pc = "request" \/ (hook.pc = "exit" /\ hook.answer # "appDown")

\* C22: the popup of an ask-listed request carries a danger level of HIGH or
\* CRITICAL.
C22_AskListedShownAtLeastHigh ==
  (stdin.kind = "json" /\ Sent /\ hook.isAskListed) =>
    indexOf(PopupData(Payload(stdin.tool_name, stdin.command, TRUE)).dangerLevel)
      >= indexOf("HIGH")


Extracted == call.fn = "parseAndExtractCommands"

\* C23: without a parser the extraction returns the whole input as its one
\* sub-command and reports it unresolvable, whatever the input is.
C23_NoParserOneOpaqueCommand ==
  (Extracted /\ parser # "ok")
    => call.result = [commands |-> <<call.command>>, hasUnresolvable |-> TRUE]

C23_Witness ==
  /\ Extracted
  /\ parser = "null"
  /\ call.command = AllPrograms[4].src
  /\ call.result.commands = <<AllPrograms[4].src>>
  /\ call.result.hasUnresolvable

\* C24: every command inside a command substitution, wherever the
\* substitution sits and however deep, is among the extracted commands.
C24_SubstitutedCommandsExtracted ==
  (Extracted /\ parser = "ok")
    => \E tree \in {parse(call.command)} :
         SubstitutedCommands(tree.rootNode, FALSE) \subseteq Range(call.result.commands)

RECURSIVE AllNodes(_)
AllNodes(node) == {node} \cup UNION { AllNodes(child) : child \in Range(node.children) }

DynamicName(node) ==
  /\ node.type = "command"
  /\ node.name # 0
  /\ \E below \in AllNodes(node.children[node.name]) :
       below.type \in {"simple_expansion", "expansion"}

\* C25: hasUnresolvable is exactly the disjunction of: no parser, an error in
\* the tree, some command node with a dynamic name.  Nothing visited after
\* such a node clears it.
C25_UnresolvableIsTheOr ==
  Extracted
    => \E tree \in {parse(call.command)} :
         call.result.hasUnresolvable =
           (\/ parser # "ok"
            \/ tree.hasError
            \/ \E node \in AllNodes(tree.rootNode) : DynamicName(node))

C25_Witness ==
  /\ Extracted
  /\ parser = "ok"
  /\ call.command = NestedPrograms[1].src
  /\ Len(call.result.commands) = 2
  /\ call.result.hasUnresolvable

AssignmentNodes(rootNode) ==
  { node \in AllNodes(rootNode) :
      node.type \in {"variable_assignment", "declaration_command", "array"} }

\* C26: no assignment, array assignment or declaration is itself an extracted
\* command, and the commands substituted into their values are extracted.
C26_AssignmentsOnlyGiveTheirSubstitutions ==
  (Extracted /\ parser = "ok")
    => \E tree \in {parse(call.command)} :
         \A node \in AssignmentNodes(tree.rootNode) :
           /\ node.text \notin Range(call.result.commands)
           /\ SubstitutedCommands(node, FALSE) \subseteq Range(call.result.commands)

C26_Witness ==
  /\ Extracted
  /\ parser = "ok"
  /\ call.command = Programs[19].src
  /\ call.result.commands = <<cmdRm.text>>


\* The event that has just run removed request id with this decision.
RemovedBy(id, decision) ==
  \/ last'.op = "respond" /\ last'.id = id /\ last'.decision = decision
  \/ last'.op = "timeout" /\ last'.id = id /\ decision = "deny"
  \/ last'.op = "stop" /\ decision = "deny"

\* C27: a request is resolved at most once, by the event that takes it out of
\* the queue and with that event's decision; a decide or a timer for an id
\* that is not queued changes neither the queue nor any decision.
C27_ResolvedOnceByTheRemover ==
  [][/\ \A id \in Ids :
          /\ status[id] \in Decisions => status'[id] = status[id]
          /\ (status[id] = "pending" /\ status'[id] # "pending")
               => /\ id \in Range(queue)
                  /\ id \notin Range(queue')
                  /\ RemovedBy(id, status'[id])
          /\ (id \in Range(queue) /\ id \notin Range(queue')) => status'[id] \in Decisions
     /\ (last'.op \in {"respond", "timeout"} /\ last'.id \notin Range(queue))
          => UNCHANGED <<queue, status>>]_vars

\* Request 2 was allowed, shutdown denied request 1, and the late allow for
\* request 1 found nothing to resolve.
C27_Witness ==
  /\ last.op = "respond" /\ last.id = 1 /\ last.decision = "allow"
  /\ status[1] = "deny"
  /\ status[2] = "allow"
  /\ ~app.running
  /\ queue = <<>>


\* C28: a Bash invocation that is AutoAllow through the allow list has at
\* least one extracted sub-command, and every one matches an allow pattern
\* (so nothing is auto-allowed against an empty allow list).
C28_AutoAllowNeedsACommand ==
  (IsBash /\ hook.verdict = "AutoAllow" /\ hook.via \in {"allowList", "allCovered"})
    => \E r \in {parseAndExtractCommands(hook.command)} :
         /\ Len(r.commands) >= 1
         /\ \A cmd \in Range(r.commands) :
              matchesSingleCommand(cmd, hook.perms.allow.bashPatterns)


\* C29: when the app's response carries a decision other than allow and skip
\* (the error body of a rejected submit has none), the hook writes deny.
C29_OtherResponsesDeny ==
  (hook.pc = "exit" /\ hook.answer \in Responses \ {"allow", "skip"})
    => hook.output = "deny"

\* The submit was rejected with the error response and the hook wrote deny.
C29_Witness ==
  /\ hook.pc = "exit"
  /\ hook.verdict = "NeedsApproval"
  /\ hook.answer = "rejected"
  /\ hook.output = "deny"


PendingNow(st) == { id \in DOMAIN st : st[id] = "pending" }

\* C30: never more than MAX_QUEUE_SIZE requests are pending, and a submit
\* that arrives while that many are pending is rejected at once: no queue
\* item, no timer, nothing sent to the display.
C30_AtMostHundredPending ==
  [][/\ Cardinality(PendingNow(status')) <= MAX_QUEUE_SIZE
     /\ (last'.op = "submit" /\ Cardinality(PendingNow(status)) >= MAX_QUEUE_SIZE)
          => /\ status'[last'.id] = "rejected"
             /\ UNCHANGED <<queue, timerArmed, popups, app>>]_vars

\* The submit that found MAX_QUEUE_SIZE requests waiting was rejected.
C30_Witness ==
  /\ last.op = "submit"
  /\ status[last.id] = "rejected"
  /\ Len(queue) = MAX_QUEUE_SIZE
  /\ Cardinality(timerArmed) = MAX_QUEUE_SIZE

====
